---- MODULE Spec2Model ----
(***************************************************************************)
(* A model of parser-utils (src/src/lib.rs): the character cursor          *)
(* SimpleTokenizer over a UTF-8 text, the token cursor TokenView over a    *)
(* token container, and the position resolver TokenizeError::position.     *)
(*                                                                         *)
(* A text (&str) is a sequence of bytes that is the UTF-8 encoding of a    *)
(* sequence of characters; a character (char) is its code point.  Byte     *)
(* offsets are 0-based as in the source, TLA+ sequences are 1-based, so    *)
(* byte offset i of s is s[i + 1].                                         *)
(***************************************************************************)
EXTENDS Integers, Sequences, FiniteSets, TLC

VARIABLES
    source,     \* SimpleTokenizer.source / TokenView.source / position's text
    index,      \* SimpleTokenizer.index (byte offset)
    start,      \* SimpleTokenizer.start (byte offset)
    panicked,   \* TRUE once a call has panicked (the thread of control is gone)
    ret,        \* the last SimpleTokenizer call: its arguments, the cursor it
                \* was called on, and what it returned
    tokens,     \* TokenView.tokens.inner
    tv_index,   \* TokenView.index (token units)
    saved,      \* the caller's snapshot of TokenView::index(), NoSnapshot before
    tv_ret,     \* the last TokenView call and what it returned
    err_index,  \* TokenizeError.index handed to position()
    info        \* the PositionInfo position() returned

vars == <<source, index, start, panicked, ret, tokens, tv_index, saved,
          tv_ret, err_index, info>>

charVars == <<source, index, start, panicked, ret>>
charState == <<index, start, panicked, ret>>
tokVars  == <<tokens, tv_index, saved, tv_ret>>
posVars  == <<err_index, info>>

----------------------------------------------------------------------------
(* Bounds *)

\* longest text, in characters, of the character cursor's runs
MaxLen == 3
\* longest token container of the token cursor's runs
MaxTokens == 3
\* longest generated text, in characters, of the position resolver's runs
MaxPosLen == 3

\* longest generated text, in characters, of the digit-run lexer's runs
MaxLexLen == 3

\* how far past the end of the text a caller's set_index argument goes
MaxOvershoot == 1
MaxOffset == 2

\* the characters texts are made of: 'a', U+00E9 (2 bytes), U+20AC (3 bytes);
\* the position resolver's texts add '\n'
Alphabet == {97, 233, 8364}
PosAlphabet == {10, 97, 233}
\* the characters the token cursor's texts are made of, one token each
TokAlphabet == {97, 233}
\* the characters the digit-run lexer's texts are made of: '1', '+', 'a'
LexAlphabet == {49, 43, 97}
Kinds == {"Number", "Plus"}

\* isize::MAX, on a target whose pointers are 32 bits wide
ISIZE_MAX == 2147483647

----------------------------------------------------------------------------
(* UTF-8, as core::char and core::str compute it *)

\* char::len_utf8
len_utf8(c) ==
    IF c < 128 THEN 1
    ELSE IF c < 2048 THEN 2
    ELSE IF c < 65536 THEN 3
    ELSE 4

\* char::encode_utf8: the bytes of one character
encode_utf8(c) ==
    IF c < 128 THEN <<c>>
    ELSE IF c < 2048 THEN <<192 + (c \div 64), 128 + (c % 64)>>
    ELSE IF c < 65536 THEN
        <<224 + (c \div 4096), 128 + ((c \div 64) % 64), 128 + (c % 64)>>
    ELSE
        <<240 + (c \div 262144), 128 + ((c \div 4096) % 64),
          128 + ((c \div 64) % 64), 128 + (c % 64)>>

RECURSIVE Utf8(_)
\* the &str holding the characters cs
Utf8(cs) ==
    IF cs = <<>> THEN <<>> ELSE encode_utf8(Head(cs)) \o Utf8(Tail(cs))

\* str::len: the byte length
ByteLen(s) == Len(s)

\* str::is_char_boundary(i)
is_char_boundary(s, i) ==
    IF i = 0 THEN TRUE
    ELSE IF i >= Len(s) THEN i = Len(s)
    ELSE ~(s[i + 1] \in 128..191)

\* s[i..].chars().next() when i is a char boundary below the length: the
\* character decoded at byte offset i
DecodeAt(s, i) ==
    LET b == s[i + 1] IN
    IF b < 128 THEN b
    ELSE IF b < 224 THEN (b - 192) * 64 + (s[i + 2] - 128)
    ELSE IF b < 240 THEN
        (b - 224) * 4096 + (s[i + 2] - 128) * 64 + (s[i + 3] - 128)
    ELSE (b - 240) * 262144 + (s[i + 2] - 128) * 4096
         + (s[i + 3] - 128) * 64 + (s[i + 4] - 128)

\* &s[a..b] (0-based, b exclusive), when it does not panic
Slice(s, a, b) == SubSeq(s, a + 1, b)

\* whether &s[i..] panics: i is past the end or inside a character
SliceFromPanics(s, i) == ~is_char_boundary(s, i)

\* s.get(a..b): the Option<&str>, None unless a <= b <= len and both ends
\* are on character boundaries
StrGet(s, a, b) ==
    IF a <= b /\ is_char_boundary(s, a) /\ is_char_boundary(s, b)
    THEN [some |-> TRUE, str |-> Slice(s, a, b)]
    ELSE [some |-> FALSE, str |-> <<>>]

----------------------------------------------------------------------------
(* Values *)

NoChar == 0 - 1
NoIndex == 0 - 1
NoSnapshot == 0 - 1
NoToken == [kind |-> "none", index |-> 0, len |-> 0]

\* the mark of a run that has called set_index: its cursor has been moved
\* by hand, and the run has no history of tokens from then on
Rewound == 0 - 2

\* the record of one SimpleTokenizer call. Besides the call, its arguments,
\* the cursor before it (idx0, start0) and its result, the record keeps the
\* history of a run without set_index: prev_end is the end of the last token
\* end_token returned, begun the index at which begin_token was called since
\* then; the record of an end_token keeps both as they were before it
\* (prev_end0, begun0)
Ret(op, arg, tag, kind, ch, expected, at, str, tok) ==
    LET rewound == op = "set_index" \/ ret.prev_end = Rewound
        ended == op = "end_token" /\ tag = "token"
    IN
    [op |-> op, arg |-> arg, idx0 |-> index, start0 |-> start,
     tag |-> tag, kind |-> kind, char |-> ch, expected |-> expected,
     at |-> at, str |-> str, tok |-> tok,
     prev_end |-> IF rewound THEN Rewound
                  ELSE IF ended THEN index ELSE ret.prev_end,
     begun |-> IF rewound \/ ended THEN NoIndex
               ELSE IF op = "begin_token" THEN index ELSE ret.begun,
     prev_end0 |-> IF ended /\ ~rewound THEN ret.prev_end ELSE NoIndex,
     begun0 |-> IF ended /\ ~rewound THEN ret.begun ELSE NoIndex]

RetNone == [op |-> "new", arg |-> NoChar, idx0 |-> 0, start0 |-> 0,
            tag |-> "unit", kind |-> "", char |-> NoChar,
            expected |-> NoChar, at |-> NoIndex, str |-> <<>>,
            tok |-> NoToken, prev_end |-> NoIndex, begun |-> NoIndex,
            prev_end0 |-> NoIndex, begun0 |-> NoIndex]

RetPanic(op, arg) ==
    Ret(op, arg, "panic", "", NoChar, NoChar, NoIndex, <<>>, NoToken)
RetOkChar(op, arg, c) ==
    Ret(op, arg, "ok", "", c, NoChar, NoIndex, <<>>, NoToken)
RetUnit(op, arg) ==
    Ret(op, arg, "unit", "", NoChar, NoChar, NoIndex, <<>>, NoToken)
RetBool(op, arg, b) ==
    Ret(op, arg, IF b THEN "true" ELSE "false", "", NoChar, NoChar, NoIndex,
        <<>>, NoToken)
\* TokenizeError { index: at, kind }
RetErr(op, arg, kind, expected, got, at) ==
    Ret(op, arg, "err", kind, got, expected, at, <<>>, NoToken)

----------------------------------------------------------------------------
(* Texts *)

\* the sequences over S of length at most n
SeqsUpTo(S, n) == UNION {[1..k -> S] : k \in 0..n}

Texts == {Utf8(cs) : cs \in SeqsUpTo(Alphabet, MaxLen)}

\* the caller-supplied predicates of take_while, as the sets they accept
Predicates == <<{}, {97}, {97, 233}, Alphabet, 48..57>>
\* char::is_ascii_digit, the predicate of the digit-run lexer
DigitPredicate == CHOOSE p \in DOMAIN Predicates : Predicates[p] = 48..57
predicate(p, c) == c \in Predicates[p]

----------------------------------------------------------------------------
(* SimpleTokenizer: the character cursor *)

\* From<&str>::from: a fresh cursor over any text
SimpleTokenizer_from ==
    /\ source \in Texts
    /\ index = 0
    /\ start = 0
    /\ panicked = FALSE
    /\ ret = RetNone

\* what self.source[self.index..].chars().next() comes to
PeekTag(s, i) ==
    IF SliceFromPanics(s, i) THEN "panic"
    ELSE IF i = ByteLen(s) THEN "eof"
    ELSE "ok"

\* begin_token as a bug would have it: start is left where it was
begin_token_keeping_start ==
    /\ ~panicked
    /\ ret' = RetUnit("begin_token", NoChar)
    /\ UNCHANGED <<source, index, start, panicked>>
    /\ UNCHANGED <<tokVars, posVars>>

begin_token ==
    /\ ~panicked
    /\ start' = index
    /\ ret' = RetUnit("begin_token", NoChar)
    /\ UNCHANGED <<source, index, panicked>>
    /\ UNCHANGED <<tokVars, posVars>>

set_index(i) ==
    /\ ~panicked
    /\ start' = IF start > i THEN i ELSE start
    /\ index' = i
    /\ ret' = RetUnit("set_index", i)
    /\ UNCHANGED <<source, panicked>>
    /\ UNCHANGED <<tokVars, posVars>>

\* take as a bug would have it: the cursor moves one byte, as
\* match_and_take moves it, whatever the character's width
SimpleTokenizer_take_one_byte ==
    /\ ~panicked
    /\ LET t == PeekTag(source, index) IN
       CASE t = "panic" ->
              /\ panicked' = TRUE
              /\ ret' = RetPanic("take", NoChar)
              /\ UNCHANGED <<index>>
         [] t = "eof" ->
              /\ ret' = RetErr("take", NoChar, "UnexpectedEndOfInput",
                               NoChar, NoChar, index)
              /\ UNCHANGED <<index, panicked>>
         [] t = "ok" ->
              /\ index' = index + 1
              /\ ret' = RetOkChar("take", NoChar, DecodeAt(source, index))
              /\ UNCHANGED <<panicked>>
    /\ UNCHANGED <<source, start>>
    /\ UNCHANGED <<tokVars, posVars>>

SimpleTokenizer_take ==
    /\ ~panicked
    /\ LET t == PeekTag(source, index) IN
       CASE t = "panic" ->
              /\ panicked' = TRUE
              /\ ret' = RetPanic("take", NoChar)
              /\ UNCHANGED <<index>>
         [] t = "eof" ->
              /\ ret' = RetErr("take", NoChar, "UnexpectedEndOfInput",
                               NoChar, NoChar, index)
              /\ UNCHANGED <<index, panicked>>
         [] t = "ok" ->
              LET char == DecodeAt(source, index) IN
              /\ index' = index + len_utf8(char)
              /\ ret' = RetOkChar("take", NoChar, char)
              /\ UNCHANGED <<panicked>>
    /\ UNCHANGED <<source, start>>
    /\ UNCHANGED <<tokVars, posVars>>

SimpleTokenizer_peek ==
    /\ ~panicked
    /\ LET t == PeekTag(source, index) IN
       CASE t = "panic" ->
              /\ panicked' = TRUE
              /\ ret' = RetPanic("peek", NoChar)
         [] t = "eof" ->
              /\ ret' = RetErr("peek", NoChar, "UnexpectedEndOfInput",
                               NoChar, NoChar, index)
              /\ UNCHANGED <<panicked>>
         [] t = "ok" ->
              /\ ret' = RetOkChar("peek", NoChar, DecodeAt(source, index))
              /\ UNCHANGED <<panicked>>
    /\ UNCHANGED <<source, index, start>>
    /\ UNCHANGED <<tokVars, posVars>>

\* the loop of take_while as a bug would have it: an if, not a while, so it
\* stops after one character
TakeWhileEnd_one_char(s, i, p) ==
    IF PeekTag(s, i) = "ok" /\ predicate(p, DecodeAt(s, i))
    THEN i + len_utf8(DecodeAt(s, i))
    ELSE i

RECURSIVE TakeWhileEnd(_, _, _)
\* the index the loop of take_while stops at, from a char boundary i
TakeWhileEnd(s, i, p) ==
    IF PeekTag(s, i) = "ok" /\ predicate(p, DecodeAt(s, i))
    THEN TakeWhileEnd(s, i + len_utf8(DecodeAt(s, i)), p)
    ELSE i

take_while(p) ==
    /\ ~panicked
    /\ IF PeekTag(source, index) = "panic"
       THEN /\ panicked' = TRUE
            /\ ret' = RetPanic("take_while", p)
            /\ UNCHANGED <<index>>
       ELSE LET end == TakeWhileEnd(source, index, p) IN
            /\ index' = end
            /\ ret' = IF index # end
                      THEN Ret("take_while", p, "some", "", NoChar, NoChar,
                               NoIndex, Slice(source, index, end), NoToken)
                      ELSE Ret("take_while", p, "none", "", NoChar, NoChar,
                               NoIndex, <<>>, NoToken)
            /\ UNCHANGED <<panicked>>
    /\ UNCHANGED <<source, start>>
    /\ UNCHANGED <<tokVars, posVars>>

\* expect as a bug would have it: the character is taken before it is
\* compared, as TokenView::expect takes the token, so a mismatch consumes it
SimpleTokenizer_expect_taking(expected) ==
    /\ ~panicked
    /\ LET t == PeekTag(source, index) IN
       CASE t = "panic" ->
              /\ panicked' = TRUE
              /\ ret' = RetPanic("expect", expected)
              /\ UNCHANGED <<index>>
         [] t = "eof" ->
              /\ ret' = RetErr("expect", expected, "UnexpectedEndOfInput",
                               NoChar, NoChar, index)
              /\ UNCHANGED <<index, panicked>>
         [] t = "ok" ->
              LET char == DecodeAt(source, index) IN
              /\ index' = index + len_utf8(char)
              /\ ret' = IF char = expected
                        THEN RetUnit("expect", expected)
                        ELSE RetErr("expect", expected, "ExpectedChar",
                                    expected, char, index)
              /\ UNCHANGED <<panicked>>
    /\ UNCHANGED <<source, start>>
    /\ UNCHANGED <<tokVars, posVars>>

SimpleTokenizer_expect(expected) ==
    /\ ~panicked
    /\ LET t == PeekTag(source, index) IN
       CASE t = "panic" ->
              /\ panicked' = TRUE
              /\ ret' = RetPanic("expect", expected)
              /\ UNCHANGED <<index>>
         [] t = "eof" ->
              /\ ret' = RetErr("expect", expected, "UnexpectedEndOfInput",
                               NoChar, NoChar, index)
              /\ UNCHANGED <<index, panicked>>
         [] t = "ok" ->
              LET char == DecodeAt(source, index) IN
              IF char = expected
              THEN /\ index' = index + len_utf8(char)
                   /\ ret' = RetUnit("expect", expected)
                   /\ UNCHANGED <<panicked>>
              ELSE /\ ret' = RetErr("expect", expected, "ExpectedChar",
                                    expected, char, index)
                   /\ UNCHANGED <<index, panicked>>
    /\ UNCHANGED <<source, start>>
    /\ UNCHANGED <<tokVars, posVars>>

\* end_token as a bug would have it: the length is the cursor's index, not
\* its distance from start
end_token_len_is_index(kind) ==
    /\ ~panicked
    /\ ret' = Ret("end_token", NoChar, "token", "", NoChar, NoChar,
                  NoIndex, <<>>,
                  [kind |-> kind, index |-> start, len |-> index])
    /\ UNCHANGED <<source, index, start, panicked>>
    /\ UNCHANGED <<tokVars, posVars>>

end_token(kind) ==
    /\ ~panicked
    /\ IF index < start
       THEN /\ panicked' = TRUE
            /\ ret' = RetPanic("end_token", NoChar)
       ELSE /\ ret' = Ret("end_token", NoChar, "token", "", NoChar, NoChar,
                          NoIndex, <<>>,
                          [kind |-> kind, index |-> start,
                           len |-> index - start])
            /\ UNCHANGED <<panicked>>
    /\ UNCHANGED <<source, index, start>>
    /\ UNCHANGED <<tokVars, posVars>>

\* SimpleTokenizer::content(tok)
SimpleTokenizer_contentOf(s, tok) == StrGet(s, tok.index, tok.index + tok.len)

\* content(&token) on the token end_token has just returned
SimpleTokenizer_content ==
    /\ ~panicked
    /\ ret.op = "end_token" /\ ret.tag = "token"
    /\ LET got == SimpleTokenizer_contentOf(source, ret.tok) IN
       ret' = Ret("content", NoChar, IF got.some THEN "some" ELSE "none", "",
                  NoChar, NoChar, NoIndex, got.str, ret.tok)
    /\ UNCHANGED <<source, index, start, panicked>>
    /\ UNCHANGED <<tokVars, posVars>>

\* self.peek().ok().filter(|c| expected.eq(c)).is_some(), when peek returns
Matches(s, i, expected) ==
    PeekTag(s, i) = "ok" /\ DecodeAt(s, i) = expected

SimpleTokenizer_matches(expected) ==
    /\ ~panicked
    /\ IF PeekTag(source, index) = "panic"
       THEN /\ panicked' = TRUE
            /\ ret' = RetPanic("matches", expected)
       ELSE /\ ret' = RetBool("matches", expected,
                              Matches(source, index, expected))
            /\ UNCHANGED <<panicked>>
    /\ UNCHANGED <<source, index, start>>
    /\ UNCHANGED <<tokVars, posVars>>

\* has_more_chars as a bug would have it: <= for <
has_more_chars_le ==
    /\ ~panicked
    /\ ret' = RetBool("has_more_chars", NoChar, index <= ByteLen(source))
    /\ UNCHANGED <<source, index, start, panicked>>
    /\ UNCHANGED <<tokVars, posVars>>

has_more_chars ==
    /\ ~panicked
    /\ ret' = RetBool("has_more_chars", NoChar, index < ByteLen(source))
    /\ UNCHANGED <<source, index, start, panicked>>
    /\ UNCHANGED <<tokVars, posVars>>

\* match_and_take as a bug would have it: the cursor moves by the
\* character's width
match_and_take_char_width(expected) ==
    /\ ~panicked
    /\ IF PeekTag(source, index) = "panic"
       THEN /\ panicked' = TRUE
            /\ ret' = RetPanic("match_and_take", expected)
            /\ UNCHANGED <<index>>
       ELSE IF Matches(source, index, expected)
       THEN /\ index' = index + len_utf8(expected)
            /\ ret' = RetBool("match_and_take", expected, TRUE)
            /\ UNCHANGED <<panicked>>
       ELSE /\ ret' = RetBool("match_and_take", expected, FALSE)
            /\ UNCHANGED <<index, panicked>>
    /\ UNCHANGED <<source, start>>
    /\ UNCHANGED <<tokVars, posVars>>

SimpleTokenizer_match_and_take(expected) ==
    /\ ~panicked
    /\ IF PeekTag(source, index) = "panic"
       THEN /\ panicked' = TRUE
            /\ ret' = RetPanic("match_and_take", expected)
            /\ UNCHANGED <<index>>
       ELSE IF Matches(source, index, expected)
       THEN /\ index' = index + 1
            /\ ret' = RetBool("match_and_take", expected, TRUE)
            /\ UNCHANGED <<panicked>>
       ELSE /\ ret' = RetBool("match_and_take", expected, FALSE)
            /\ UNCHANGED <<index, panicked>>
    /\ UNCHANGED <<source, start>>
    /\ UNCHANGED <<tokVars, posVars>>

\* the scanning operations: every operation of the cursor but set_index
ScanStep ==
    \/ begin_token
    \/ SimpleTokenizer_take
    \/ SimpleTokenizer_peek
    \/ \E p \in DOMAIN Predicates : take_while(p)
    \/ \E c \in Alphabet : SimpleTokenizer_expect(c)
    \/ \E k \in Kinds : end_token(k)
    \/ \E c \in Alphabet : SimpleTokenizer_matches(c)
    \/ has_more_chars
    \/ \E c \in Alphabet : SimpleTokenizer_match_and_take(c)
    \/ SimpleTokenizer_content

SetIndexStep ==
    \E i \in 0..(ByteLen(source) + MaxOvershoot) : set_index(i)

----------------------------------------------------------------------------
(* TokenView: the token cursor *)

\* the record of one TokenView call: kind and idx (an index or an offset) are
\* its arguments, idx0
\* the index it was called at, tok the token of an Ok or of the error
\* text is the string argument of the call, str the string of an Ok or the
\* got of an ExpectedString
TvRetStr(op, kind, idx, text, tag, err, tok, str) ==
    [op |-> op, kind |-> kind, idx |-> idx, text |-> text,
     idx0 |-> tv_index, tag |-> tag, err |-> err, tok |-> tok, str |-> str]

TvRet(op, kind, idx, tag, err, tok) ==
    TvRetStr(op, kind, idx, <<>>, tag, err, tok, <<>>)

TvRetNone == [op |-> "new", kind |-> "", idx |-> NoIndex, text |-> <<>>,
              idx0 |-> 0, tag |-> "unit", err |-> "", tok |-> NoToken,
              str |-> <<>>]

RECURSIVE OneTokenPerChar(_, _, _)
\* the container a lexer builds that ends a token after every character:
\* token j spans character j of cs and has kind ks[j]
OneTokenPerChar(cs, ks, at) ==
    IF cs = <<>> THEN <<>>
    ELSE <<[kind |-> Head(ks), index |-> at, len |-> len_utf8(Head(cs))]>>
         \o OneTokenPerChar(Tail(cs), Tail(ks), at + len_utf8(Head(cs)))

\* the container of a lexer that took its last character with
\* match_and_take, which moves one byte, and stopped there: the last token
\* is one byte long
CutLast(ts) ==
    IF ts = <<>> THEN ts
    ELSE [ts EXCEPT ![Len(ts)] = [@ EXCEPT !.len = 1]]

\* TokenView::new over a text and a container built from it
TokenView_new ==
    /\ \E n \in 0..MaxTokens :
         \E cs \in [1..n -> TokAlphabet], ks \in [1..n -> Kinds] :
            /\ source = Utf8(cs)
            /\ tokens \in {OneTokenPerChar(cs, ks, 0),
                            CutLast(OneTokenPerChar(cs, ks, 0))}
    /\ tv_index = 0
    /\ saved = NoSnapshot
    /\ tv_ret = TvRetNone

\* TokenView::content(token)
TokenView_contentOf(s, token) ==
    StrGet(s, token.index, token.index + token.len)

\* self.tokens.inner.get(i)
TokenAt(ts, i) == IF i >= 0 /\ i < Len(ts) THEN ts[i + 1] ELSE NoToken
HasTokenAt(ts, i) == i >= 0 /\ i < Len(ts)

TokenView_peek ==
    /\ ~panicked
    /\ tv_ret' = IF HasTokenAt(tokens, tv_index)
                 THEN TvRet("peek", "", NoIndex, "ok", "",
                            TokenAt(tokens, tv_index))
                 ELSE TvRet("peek", "", NoIndex, "err",
                            "UnexpectedEndOfInput", NoToken)
    /\ UNCHANGED <<tokens, tv_index, saved>>
    /\ UNCHANGED <<source, charState, posVars>>

\* the index take leaves
\* take() without the check of lib.rs:322
TakeIndex_unchecked(ts, i) == i + 1

TakeIndex(ts, i) == IF i < Len(ts) THEN i + 1 ELSE i

TokenView_take ==
    /\ ~panicked
    /\ tv_index' = TakeIndex(tokens, tv_index)
    /\ tv_ret' = IF tv_index < Len(tokens)
                 THEN TvRet("take", "", NoIndex, "ok", "",
                            tokens[tv_index + 1])
                 ELSE TvRet("take", "", NoIndex, "err",
                            "UnexpectedEndOfInput", NoToken)
    /\ UNCHANGED <<tokens, saved>>
    /\ UNCHANGED <<source, charState, posVars>>

\* the index expect leaves: that of its take, whatever the kind
ExpectIndex(ts, i, kind) == TakeIndex(ts, i)

TokenView_expect(kind) ==
    /\ ~panicked
    /\ tv_index' = ExpectIndex(tokens, tv_index, kind)
    /\ tv_ret' = IF tv_index < Len(tokens)
                 THEN LET token == tokens[tv_index + 1] IN
                      IF token.kind = kind
                      THEN TvRet("expect", kind, NoIndex, "ok", "", token)
                      ELSE TvRet("expect", kind, NoIndex, "err",
                                 "ExpectedToken", token)
                 ELSE TvRet("expect", kind, NoIndex, "err",
                            "UnexpectedEndOfInput", NoToken)
    /\ UNCHANGED <<tokens, saved>>
    /\ UNCHANGED <<source, charState, posVars>>

\* self.peek().ok().filter(|token| token.kind == kind).is_some()
TokenMatches(ts, i, kind) == HasTokenAt(ts, i) /\ TokenAt(ts, i).kind = kind

TokenView_matches(kind) ==
    /\ ~panicked
    /\ tv_ret' = TvRet("matches", kind, NoIndex,
                       IF TokenMatches(tokens, tv_index, kind)
                       THEN "true" ELSE "false", "", NoToken)
    /\ UNCHANGED <<tokens, tv_index, saved>>
    /\ UNCHANGED <<source, charState, posVars>>

\* the index match_and_take leaves
MatchAndTakeIndex(ts, i, kind) ==
    IF TokenMatches(ts, i, kind) THEN i + 1 ELSE i

TokenView_match_and_take(kind) ==
    /\ ~panicked
    /\ tv_index' = MatchAndTakeIndex(tokens, tv_index, kind)
    /\ tv_ret' = TvRet("match_and_take", kind, NoIndex,
                       IF TokenMatches(tokens, tv_index, kind)
                       THEN "true" ELSE "false", "", NoToken)
    /\ UNCHANGED <<tokens, saved>>
    /\ UNCHANGED <<source, charState, posVars>>

\* has_more_tokens() comparing with <=
has_more_tokens_le ==
    /\ ~panicked
    /\ tv_ret' = TvRet("has_more_tokens", "", NoIndex,
                       IF tv_index <= Len(tokens) THEN "true" ELSE "false",
                       "", NoToken)
    /\ UNCHANGED <<tokens, tv_index, saved>>
    /\ UNCHANGED <<source, charState, posVars>>

has_more_tokens ==
    /\ ~panicked
    /\ tv_ret' = TvRet("has_more_tokens", "", NoIndex,
                       IF tv_index < Len(tokens) THEN "true" ELSE "false",
                       "", NoToken)
    /\ UNCHANGED <<tokens, tv_index, saved>>
    /\ UNCHANGED <<source, charState, posVars>>

\* index(): the caller keeps the value as its snapshot
TokenView_index ==
    /\ ~panicked
    /\ saved' = tv_index
    /\ tv_ret' = TvRet("index", "", tv_index, "usize", "", NoToken)
    /\ UNCHANGED <<tokens, tv_index>>
    /\ UNCHANGED <<source, charState, posVars>>

\* whether set_position(idx) takes idx
SetPositionOk(ts, idx) == idx < Len(ts)

set_position(idx) ==
    /\ ~panicked
    /\ tv_index' = IF SetPositionOk(tokens, idx) THEN idx ELSE tv_index
    /\ tv_ret' = TvRet("set_position", "", idx,
                       IF SetPositionOk(tokens, idx) THEN "true" ELSE "false",
                       "", NoToken)
    /\ UNCHANGED <<tokens, saved>>
    /\ UNCHANGED <<source, charState, posVars>>

\* the offsets of peekn's callers: around the container, and the extremes
\* of isize
PeeknOffsets ==
    ((0 - MaxOffset)..MaxOffset) \cup {ISIZE_MAX, 0 - ISIZE_MAX}

\* peekn(off): pos + off is an isize addition; when it overflows, a build
\* with overflow checks (debug) panics and one without (release) wraps to a
\* negative pos, which usize::try_from refuses
peekn(off) ==
    /\ ~panicked
    /\ IF off > ISIZE_MAX - tv_index
       THEN \/ /\ panicked' = TRUE
               /\ tv_ret' = TvRet("peekn", "", off, "panic", "", NoToken)
            \/ /\ tv_ret' = TvRet("peekn", "", off, "none", "", NoToken)
               /\ UNCHANGED <<panicked>>
       ELSE LET pos == tv_index + off IN
            /\ tv_ret' = IF HasTokenAt(tokens, pos)
                         THEN TvRet("peekn", "", off, "some", "",
                                    TokenAt(tokens, pos))
                         ELSE TvRet("peekn", "", off, "none", "", NoToken)
            /\ UNCHANGED <<panicked>>
    /\ UNCHANGED <<tokens, tv_index, saved>>
    /\ UNCHANGED <<source, index, start, ret, posVars>>

\* content_take(): take, then content(tok).expect("token content not in
\* source") on the token taken
content_take ==
    /\ ~panicked
    /\ tv_index' = TakeIndex(tokens, tv_index)
    /\ IF tv_index < Len(tokens)
       THEN LET tok == tokens[tv_index + 1]
                got == TokenView_contentOf(source, tok)
            IN  IF got.some
                THEN /\ tv_ret' = TvRetStr("content_take", "", NoIndex, <<>>,
                                           "ok", "", tok, got.str)
                     /\ UNCHANGED <<panicked>>
                ELSE /\ tv_ret' = TvRet("content_take", "", NoIndex, "panic",
                                        "", tok)
                     /\ panicked' = TRUE
       ELSE /\ tv_ret' = TvRet("content_take", "", NoIndex, "err",
                               "UnexpectedEndOfInput", NoToken)
            /\ UNCHANGED <<panicked>>
    /\ UNCHANGED <<tokens, saved>>
    /\ UNCHANGED <<source, index, start, ret, posVars>>

\* content_expect(kind): expect, then content(tok).expect(..) on its token
content_expect(kind) ==
    /\ ~panicked
    /\ tv_index' = ExpectIndex(tokens, tv_index, kind)
    /\ IF tv_index < Len(tokens)
       THEN LET tok == tokens[tv_index + 1]
                got == TokenView_contentOf(source, tok)
            IN  IF tok.kind # kind
                THEN /\ tv_ret' = TvRet("content_expect", kind, NoIndex,
                                        "err", "ExpectedToken", tok)
                     /\ UNCHANGED <<panicked>>
                ELSE IF got.some
                THEN /\ tv_ret' = TvRetStr("content_expect", kind, NoIndex,
                                           <<>>, "ok", "", tok, got.str)
                     /\ UNCHANGED <<panicked>>
                ELSE /\ tv_ret' = TvRet("content_expect", kind, NoIndex,
                                        "panic", "", tok)
                     /\ panicked' = TRUE
       ELSE /\ tv_ret' = TvRet("content_expect", kind, NoIndex, "err",
                               "UnexpectedEndOfInput", NoToken)
            /\ UNCHANGED <<panicked>>
    /\ UNCHANGED <<tokens, saved>>
    /\ UNCHANGED <<source, index, start, ret, posVars>>

\* content_matches() consuming the token it accepts
content_matches_taking(input) ==
    /\ ~panicked
    /\ HasTokenAt(tokens, tv_index)
    /\ TokenView_contentOf(source, TokenAt(tokens, tv_index)).some
    /\ TokenView_contentOf(source, TokenAt(tokens, tv_index)).str = input
    /\ tv_index' = tv_index + 1
    /\ tv_ret' = TvRetStr("content_matches", "", NoIndex, input, "ok", "",
                          TokenAt(tokens, tv_index), input)
    /\ UNCHANGED <<tokens, saved>>
    /\ UNCHANGED <<source, charState, posVars>>

\* the literals content_matches is called with
MatchTexts == {<<>>} \cup {Utf8(<<c>>) : c \in TokAlphabet}

\* content_matches(input)
content_matches(input) ==
    /\ ~panicked
    /\ IF HasTokenAt(tokens, tv_index)
       THEN LET token == TokenAt(tokens, tv_index)
                got == TokenView_contentOf(source, token)
            IN  IF ~got.some
                THEN /\ tv_ret' = TvRetStr("content_matches", "", NoIndex,
                                           input, "panic", "", token, <<>>)
                     /\ panicked' = TRUE
                ELSE IF got.str = input
                THEN /\ tv_ret' = TvRetStr("content_matches", "", NoIndex,
                                           input, "ok", "", token, got.str)
                     /\ UNCHANGED <<panicked>>
                ELSE /\ tv_ret' = TvRetStr("content_matches", "", NoIndex,
                                           input, "err", "ExpectedString",
                                           token, got.str)
                     /\ UNCHANGED <<panicked>>
       ELSE /\ tv_ret' = TvRetStr("content_matches", "", NoIndex, input,
                                  "err", "UnexpectedEndOfInput", NoToken,
                                  <<>>)
            /\ UNCHANGED <<panicked>>
    /\ UNCHANGED <<tokens, tv_index, saved>>
    /\ UNCHANGED <<source, index, start, ret, posVars>>

TokStep ==
    \/ TokenView_peek
    \/ TokenView_take
    \/ \E k \in Kinds : TokenView_expect(k)
    \/ \E k \in Kinds : TokenView_matches(k)
    \/ \E k \in Kinds : TokenView_match_and_take(k)
    \/ has_more_tokens
    \/ TokenView_index
    \/ \E idx \in 0..(Len(tokens) + MaxOvershoot) : set_position(idx)
    \/ \E off \in PeeknOffsets : peekn(off)
    \/ content_take
    \/ \E k \in Kinds : content_expect(k)
    \/ \E input \in MatchTexts : content_matches(input)

----------------------------------------------------------------------------
(* The digit-run lexer and its parser: a caller of both cursors.  The lexer *)
(* is   while has_more_chars() { begin_token();                             *)
(*        if take_while(is digit) is some { push(end_token(Number)) }       *)
(*        else { expect('+')?; push(end_token(Plus)) } }                    *)
(* and the parser, over the container the lexer built, is                   *)
(*      expect(Number)?; expect(Plus)?; expect(Number)?; has_more_tokens()  *)
(* Each caller is where its last call left it, so its position is read off  *)
(* the record of that call.                                                 *)

\* "12+34"
Text12Plus34 == Utf8(<<49, 50, 43, 51, 52>>)

LexTexts ==
    {Utf8(cs) : cs \in SeqsUpTo(LexAlphabet, MaxLexLen)} \cup {Text12Plus34}

\* whether the token end_token returned last is in the container already
\* (every token of this lexer is at least one byte long, so no two are equal)
Pushed == tokens # <<>> /\ tokens[Len(tokens)] = ret.tok

Lex_has_more_chars ==
    /\ ret.op = "new" \/ (ret.op = "end_token" /\ Pushed)
    /\ has_more_chars

Lex_begin_token ==
    /\ ret.op = "has_more_chars" /\ ret.tag = "true"
    /\ begin_token

Lex_take_while ==
    /\ ret.op = "begin_token"
    /\ take_while(DigitPredicate)

Lex_end_number ==
    /\ ret.op = "take_while" /\ ret.tag = "some"
    /\ end_token("Number")

Lex_expect_plus ==
    /\ ret.op = "take_while" /\ ret.tag = "none"
    /\ SimpleTokenizer_expect(43)

Lex_end_plus ==
    /\ ret.op = "expect" /\ ret.tag = "unit"
    /\ end_token("Plus")

\* Tokens::from_iter: the container takes the token end_token returned
Lex_push ==
    /\ ret.op = "end_token" /\ ret.tag = "token" /\ ~Pushed
    /\ tokens' = Append(tokens, ret.tok)
    /\ UNCHANGED <<source, charState, tv_index, saved, tv_ret, posVars>>

\* the lexer has left its loop without an error
LexDone == ret.op = "has_more_chars" /\ ret.tag = "false"

\* TokenView::new(source, &tokens), then the first expect
Parse_expect_first ==
    /\ LexDone /\ tv_ret.op = "new"
    /\ TokenView_expect("Number")

Parse_expect_plus ==
    /\ LexDone /\ tv_ret.op = "expect" /\ tv_ret.tag = "ok" /\ tv_ret.idx0 = 0
    /\ TokenView_expect("Plus")

Parse_expect_last ==
    /\ LexDone /\ tv_ret.op = "expect" /\ tv_ret.tag = "ok" /\ tv_ret.idx0 = 1
    /\ TokenView_expect("Number")

Parse_has_more_tokens ==
    /\ LexDone /\ tv_ret.op = "expect" /\ tv_ret.tag = "ok" /\ tv_ret.idx0 = 2
    /\ has_more_tokens

LexStep ==
    \/ Lex_has_more_chars
    \/ Lex_begin_token
    \/ Lex_take_while
    \/ Lex_end_number
    \/ Lex_expect_plus
    \/ Lex_end_plus
    \/ Lex_push
    \/ Parse_expect_first
    \/ Parse_expect_plus
    \/ Parse_expect_last
    \/ Parse_has_more_tokens

----------------------------------------------------------------------------
(* TokenizeError::position: the position resolver *)

NoInfo == [line |-> 0, column |-> 0, line_start_index |-> 0,
           index |-> NoIndex]

RECURSIVE PositionLoop(_, _, _, _, _, _)
\* the loop over source.chars(), entered with the next character at byte
\* offset str_index
PositionLoop(s, idx, str_index, line, line_start_index, column) ==
    IF str_index >= ByteLen(s)
    THEN [line |-> line, column |-> column,
          line_start_index |-> line_start_index, index |-> idx]
    ELSE LET c == DecodeAt(s, str_index)
             line2 == IF c = 10 THEN line + 1 ELSE line
             lsi2 == IF c = 10 THEN str_index ELSE line_start_index
             column2 == IF c = 10 THEN 0 ELSE column + 1
             str_index2 == str_index + len_utf8(c)
         IN  IF str_index2 >= idx
             THEN [line |-> line2, column |-> column2,
                   line_start_index |-> lsi2, index |-> idx]
             ELSE PositionLoop(s, idx, str_index2, line2, lsi2, column2)

\* TokenizeError::position(this, source) with this.index = idx
Position(s, idx) == PositionLoop(s, idx, 0, 1, 0, 0)

\* "ab\ncd"
AbNlCd == Utf8(<<97, 98, 10, 99, 100>>)

PosTexts == {Utf8(cs) : cs \in SeqsUpTo(PosAlphabet, MaxPosLen)} \cup {AbNlCd}

\* a text and the offset of an error raised while scanning it
PositionInit ==
    /\ source \in PosTexts
    /\ err_index \in 0..(ByteLen(source) + MaxOvershoot)
    /\ info = NoInfo

position ==
    /\ info = NoInfo
    /\ info' = Position(source, err_index)
    /\ UNCHANGED <<source, err_index>>
    /\ UNCHANGED <<charState, tokVars>>

----------------------------------------------------------------------------
(* Specifications *)

CharIdle == index = 0 /\ start = 0 /\ panicked = FALSE /\ ret = RetNone
TokIdle == tokens = <<>> /\ tv_index = 0 /\ saved = NoSnapshot
           /\ tv_ret = TvRetNone
PosIdle == err_index = 0 /\ info = NoInfo

\* the character cursor under every operation
Init == SimpleTokenizer_from /\ TokIdle /\ PosIdle
Next == ScanStep \/ SetIndexStep
Spec == Init /\ [][Next]_vars

\* the character cursor under the scanning operations alone
ScanSpec == Init /\ [][ScanStep]_vars

\* the token cursor
TokInit == TokenView_new /\ CharIdle /\ PosIdle
TokSpec == TokInit /\ [][TokStep]_vars

\* the digit-run lexer and its parser
LexInit ==
    /\ source \in LexTexts
    /\ CharIdle /\ TokIdle /\ PosIdle
LexSpec == LexInit /\ [][LexStep]_vars

\* the position resolver
PosInit == PositionInit /\ CharIdle /\ TokIdle
PosSpec == PosInit /\ [][position]_vars

----------------------------------------------------------------------------
(* Properties of the token cursor *)

\* C1: expect(kind) on a token of another kind fails with
\* ExpectedToken{expected: kind, got: the current token} and does not consume
\* it: index is as before the call and peek() returns the token in got.
C1_ExpectMismatchKeepsToken ==
    (tv_ret.op = "expect" /\ tv_ret.err = "ExpectedToken") =>
        /\ tv_ret.tok = TokenAt(tokens, tv_ret.idx0)
        /\ tv_ret.tok.kind # tv_ret.kind
        /\ tv_index = tv_ret.idx0
        /\ HasTokenAt(tokens, tv_index)
        /\ TokenAt(tokens, tv_index) = tv_ret.tok

\* C2: match_and_take(kind) returning false leaves index unchanged, returning
\* true advances it by one, and in every case leaves the cursor where
\* expect(kind), called on the same cursor, leaves it.
C2_MatchAndTakeAsExpect ==
    tv_ret.op = "match_and_take" =>
        /\ tv_ret.tag = "false" => tv_index = tv_ret.idx0
        /\ tv_ret.tag = "true" => tv_index = tv_ret.idx0 + 1
        /\ tv_index = ExpectIndex(tokens, tv_ret.idx0, tv_ret.kind)

\* C3: set_position(idx) with idx beyond the container length returns false
\* and leaves index unchanged; with any idx in 0..len(tokens) it returns true
\* and leaves index = idx.
C3_SetPosition ==
    tv_ret.op = "set_position" =>
        /\ tv_ret.idx > Len(tokens) =>
              tv_ret.tag = "false" /\ tv_index = tv_ret.idx0
        /\ tv_ret.idx \in 0..Len(tokens) =>
              tv_ret.tag = "true" /\ tv_index = tv_ret.idx

\* C4: a position index() returned at any point of a run is one that
\* set_position takes back: set_position(p) returns true and index() = p.
C4_SnapshotRestore ==
    (tv_ret.op = "set_position" /\ saved # NoSnapshot /\ tv_ret.idx = saved) =>
        tv_ret.tag = "true" /\ tv_index = saved

----------------------------------------------------------------------------
(* Properties of the position resolver *)

\* the number of '\n' bytes of s below byte offset i
NewlinesBefore(s, i) ==
    Cardinality({j \in 0..(i - 1) : j < Len(s) /\ s[j + 1] = 10})

\* the byte offset of the first character of the line byte offset i is on
LineStartOf(s, i) ==
    LET nls == {j \in 0..(i - 1) : j < Len(s) /\ s[j + 1] = 10} IN
    IF nls = {} THEN 0
    ELSE (CHOOSE j \in nls : \A k \in nls : k <= j) + 1

\* the number of characters of s that begin in the byte range [a, b)
CharsBetween(s, a, b) ==
    Cardinality({j \in a..(b - 1) : j < Len(s) /\ ~(s[j + 1] \in 128..191)})

\* C5: position() returns line = 1 + the number of '\n' before the offset,
\* line_start_index = the offset of the first character of that line,
\* column = the number of characters from line_start_index to the offset,
\* index = the offset; "ab\ncd" at 3 is line 2, column 0, line start 3.
C5_PositionResolution ==
    info # NoInfo =>
        /\ info.line = 1 + NewlinesBefore(source, err_index)
        /\ info.line_start_index = LineStartOf(source, err_index)
        /\ info.column =
              CharsBetween(source, LineStartOf(source, err_index), err_index)
        /\ info.index = err_index

----------------------------------------------------------------------------
(* Properties of the character cursor *)

\* C6: no scanning operation panics, whatever the text and the calls before.
C6_NoPanic == ~panicked

\* C7: a token end_token returns lies within the text and both its ends are
\* on character boundaries of the text.
C7_TokenInTextOnBoundaries ==
    (ret.op = "end_token" /\ ret.tag = "token") =>
        /\ ret.tok.index + ret.tok.len <= ByteLen(source)
        /\ is_char_boundary(source, ret.tok.index)
        /\ is_char_boundary(source, ret.tok.index + ret.tok.len)

\* C8: start <= index <= len(source) in every state, and set_index(i) with
\* i below start pulls start down to i.
C8_CursorInvariant ==
    /\ start <= index
    /\ index <= ByteLen(source)
    /\ (ret.op = "set_index" /\ ret.arg < ret.start0) => start = ret.arg

\* whether the bytes of character c begin at byte offset i of s
HasCharAt(s, i, c) ==
    LET w == Len(encode_utf8(c)) IN
    /\ i + w <= Len(s)
    /\ Slice(s, i, i + w) = encode_utf8(c)

\* C9: a successful take returns the character at index and leaves index
\* advanced by that character's UTF-8 width; peek returns the character take
\* would return and changes neither index nor start.
C9_TakePeek ==
    /\ (ret.op = "take" /\ ret.tag = "ok") =>
          /\ HasCharAt(source, ret.idx0, ret.char)
          /\ index = ret.idx0 + Len(encode_utf8(ret.char))
          /\ start = ret.start0
    /\ (ret.op = "take" /\ ret.tag # "ok") => index = ret.idx0
    /\ ret.op = "peek" =>
          /\ index = ret.idx0
          /\ start = ret.start0
          /\ ret.tag = "ok" => HasCharAt(source, ret.idx0, ret.char)
          /\ \A c \in Alphabet : HasCharAt(source, ret.idx0, c) =>
                (ret.tag = "ok" /\ ret.char = c)

\* a take that returned a character of more than one byte, not the first
C9_Witness ==
    /\ ret.op = "take" /\ ret.tag = "ok"
    /\ Len(encode_utf8(ret.char)) > 1
    /\ ret.idx0 > 0
    /\ index = ret.idx0 + Len(encode_utf8(ret.char))

\* C10: expect(c) on another character fails with ExpectedChar{expected: c,
\* got: that character} at the current index and leaves index unchanged; at
\* the end of the text it fails with UnexpectedEndOfInput and leaves index
\* unchanged; on c it succeeds and advances index by c's UTF-8 width.
C10_Expect ==
    ret.op = "expect" =>
        /\ \A d \in Alphabet \ {ret.arg} : HasCharAt(source, ret.idx0, d) =>
              /\ ret.tag = "err" /\ ret.kind = "ExpectedChar"
              /\ ret.expected = ret.arg /\ ret.char = d
              /\ ret.at = ret.idx0
              /\ index = ret.idx0
        /\ ret.idx0 = ByteLen(source) =>
              /\ ret.tag = "err" /\ ret.kind = "UnexpectedEndOfInput"
              /\ ret.at = ret.idx0
              /\ index = ret.idx0
        /\ HasCharAt(source, ret.idx0, ret.arg) =>
              /\ ret.tag = "unit"
              /\ index = ret.idx0 + Len(encode_utf8(ret.arg))
        /\ start = ret.start0

\* an expect that failed on a character of more than one byte, not the first
\* of the text, and left the cursor on it
C10_Witness ==
    /\ ret.op = "expect" /\ ret.kind = "ExpectedChar"
    /\ Len(encode_utf8(ret.char)) > 1
    /\ ret.idx0 > 0
    /\ index = ret.idx0

\* whether a character the predicate p accepts begins at byte offset j of s
AcceptedAt(s, j, p) ==
    \E c \in Alphabet : HasCharAt(s, j, c) /\ c \in Predicates[p]

\* C11: take_while(predicate) returns a value, never an error, and consumes
\* exactly the longest run of characters from index that satisfy the
\* predicate: it stops at the first character that does not, or at the end
\* of the text, and returns the run; when the run is empty it returns the
\* no-match signal, leaves index unchanged, and a repeated call does nothing.
C11_TakeWhile ==
    (ret.op = "take_while" /\ is_char_boundary(source, ret.idx0)) =>
        /\ ret.tag \in {"some", "none"}
        /\ ret.idx0 <= index /\ index <= ByteLen(source)
        /\ \A j \in ret.idx0..(index - 1) :
              is_char_boundary(source, j) => AcceptedAt(source, j, ret.arg)
        /\ index = ByteLen(source) \/ ~AcceptedAt(source, index, ret.arg)
        /\ ret.tag = "some" <=> index # ret.idx0
        /\ ret.str = Slice(source, ret.idx0, index)
        /\ start = ret.start0
        /\ ret.tag = "none" =>
              /\ index = ret.idx0
              /\ TakeWhileEnd(source, index, ret.arg) = index

\* a take_while that consumed a run of several characters, one of them of
\* more than one byte, and stopped before the end of the text
C11_Witness ==
    /\ ret.op = "take_while" /\ ret.tag = "some"
    /\ Len(ret.str) >= 3
    /\ index < ByteLen(source)
    /\ ~AcceptedAt(source, index, ret.arg)

\* C12: for a token end_token produced, content(t) on the character cursor
\* and content(t) on a token cursor over the same text both return the
\* substring source[t.index .. t.index + t.len], never nothing, and the
\* substring begins and ends on character boundaries.
C12_ContentIsTokenRange ==
    ret.op = "content" =>
        LET t == ret.tok
            want == [some |-> TRUE,
                     str |-> Slice(source, t.index, t.index + t.len)]
        IN  /\ ret.tag = "some"
            /\ ret.str = want.str
            /\ TokenView_contentOf(source, t) = want
            /\ is_char_boundary(source, t.index)
            /\ is_char_boundary(source, t.index + t.len)

\* the tokens Number[0,2), Plus[2,1), Number[3,2)
Tokens12Plus34 ==
    <<[kind |-> "Number", index |-> 0, len |-> 2],
      [kind |-> "Plus", index |-> 2, len |-> 1],
      [kind |-> "Number", index |-> 3, len |-> 2]>>

\* C13: the digit-run lexer turns "12+34" into exactly Number(index 0,
\* len 2), Plus(index 2, len 1), Number(index 3, len 2); over them
\* expect(Number), expect(Plus), expect(Number) succeed in that order and
\* has_more_tokens() is false afterwards.
C13_EndToEnd ==
    source = Text12Plus34 =>
        /\ ~panicked /\ ret.tag # "err"
        /\ Len(tokens) <= 3
        /\ tokens = SubSeq(Tokens12Plus34, 1, Len(tokens))
        /\ LexDone => tokens = Tokens12Plus34
        /\ tv_ret.op = "expect" =>
              /\ tv_ret.tag = "ok"
              /\ tv_ret.tok = Tokens12Plus34[tv_ret.idx0 + 1]
              /\ tv_index = tv_ret.idx0 + 1
        /\ tv_ret.op = "has_more_tokens" =>
              tv_ret.tag = "false" /\ tv_index = 3

\* the run over "12+34" at its end: three tokens lexed, three expects done,
\* has_more_tokens() answered
C13_Witness ==
    /\ source = Text12Plus34
    /\ LexDone
    /\ tokens = Tokens12Plus34
    /\ tv_ret.op = "has_more_tokens"
    /\ tv_index = 3

\* C14: with index = len(source), and so on the empty text at offset 0,
\* peek, take and expect each fail with UnexpectedEndOfInput recorded at the
\* cursor's index and leave index and start unchanged, and has_more_chars()
\* is false.
C14_EndOfInput ==
    ret.idx0 = ByteLen(source) =>
        /\ ret.op \in {"peek", "take", "expect"} =>
              /\ ret.tag = "err" /\ ret.kind = "UnexpectedEndOfInput"
              /\ ret.at = index
              /\ index = ret.idx0
              /\ start = ret.start0
        /\ ret.op = "has_more_chars" => ret.tag = "false"

\* expect on the empty text: UnexpectedEndOfInput at offset 0
C14_Witness ==
    /\ source = <<>>
    /\ ret.op = "expect" /\ ret.kind = "UnexpectedEndOfInput"
    /\ ret.at = 0 /\ index = 0

\* C15: the token cursor's index stays within 0..len(tokens) in every state
\* reachable from new() by any sequence of its operations, set_position(idx)
\* with any idx included
C15_TokenCursorInvariant ==
    /\ tv_index >= 0
    /\ tv_index <= Len(tokens)

\* a take at the end of a container of two tokens or more
C15_Witness ==
    /\ tv_ret.op = "take" /\ tv_ret.tag = "err"
    /\ tv_ret.idx0 = Len(tokens) /\ tv_index = Len(tokens)
    /\ Len(tokens) >= 2

\* C16: with a token under the cursor peek returns tokens[index] and leaves
\* index, take returns the same token and advances index by one; at the end
\* both fail with UnexpectedEndOfInput and leave index; has_more_tokens() is
\* true exactly when peek succeeds
C16_TakePeek ==
    /\ tv_ret.op = "peek" =>
          /\ tv_index = tv_ret.idx0
          /\ IF tv_ret.idx0 < Len(tokens)
             THEN tv_ret.tag = "ok" /\ tv_ret.tok = tokens[tv_ret.idx0 + 1]
             ELSE tv_ret.tag = "err" /\ tv_ret.err = "UnexpectedEndOfInput"
    /\ tv_ret.op = "take" =>
          IF tv_ret.idx0 < Len(tokens)
          THEN /\ tv_ret.tag = "ok"
               /\ tv_ret.tok = tokens[tv_ret.idx0 + 1]
               /\ tv_index = tv_ret.idx0 + 1
          ELSE /\ tv_ret.tag = "err"
               /\ tv_ret.err = "UnexpectedEndOfInput"
               /\ tv_index = tv_ret.idx0
    /\ tv_ret.op = "has_more_tokens" =>
          /\ tv_index = tv_ret.idx0
          /\ tv_ret.tag = "true" <=> HasTokenAt(tokens, tv_ret.idx0)

\* a take of the second token
C16_Witness ==
    /\ tv_ret.op = "take" /\ tv_ret.tag = "ok"
    /\ tv_ret.idx0 = 1 /\ tv_index = 2
    /\ tv_ret.tok = tokens[2]

\* C17: peekn(off), for every signed off, returns tokens[index + off] when
\* 0 <= index + off < len(tokens) and nothing otherwise, never aborts, never
\* changes index, and peekn(0) returns the token of a successful peek()
C17_Peekn ==
    tv_ret.op = "peekn" =>
        /\ tv_ret.tag # "panic"
        /\ tv_index = tv_ret.idx0
        /\ IF /\ tv_ret.idx >= 0 - tv_ret.idx0
              /\ tv_ret.idx < Len(tokens) - tv_ret.idx0
           THEN /\ tv_ret.tag = "some"
                /\ tv_ret.tok = tokens[tv_ret.idx0 + tv_ret.idx + 1]
           ELSE tv_ret.tag = "none"
        /\ (tv_ret.idx = 0 /\ HasTokenAt(tokens, tv_ret.idx0)) =>
              tv_ret.tok = TokenAt(tokens, tv_ret.idx0)

\* C18: content_matches(text) returns the current token's substring when it
\* equals text, fails with ExpectedString{expected: text, got: the
\* substring, token: the current token} when it differs and with
\* UnexpectedEndOfInput when no token remains; index is unchanged in all
\* three cases
C18_ContentMatches ==
    tv_ret.op = "content_matches" =>
        /\ tv_index = tv_ret.idx0
        /\ IF ~HasTokenAt(tokens, tv_ret.idx0)
           THEN tv_ret.tag = "err" /\ tv_ret.err = "UnexpectedEndOfInput"
           ELSE LET token == TokenAt(tokens, tv_ret.idx0)
                    got == TokenView_contentOf(source, token)
                IN  got.some =>
                       IF got.str = tv_ret.text
                       THEN tv_ret.tag = "ok" /\ tv_ret.str = got.str
                       ELSE /\ tv_ret.tag = "err"
                            /\ tv_ret.err = "ExpectedString"
                            /\ tv_ret.str = got.str
                            /\ tv_ret.tok = token

\* the second token, a two-byte character, accepted by content_matches
C18_Witness ==
    /\ tv_ret.op = "content_matches" /\ tv_ret.tag = "ok"
    /\ tv_ret.idx0 = 1 /\ tv_index = 1
    /\ tv_ret.str = Utf8(<<233>>) /\ tv_ret.text = Utf8(<<233>>)

\* C19: match_and_take(c) returns true exactly when matches(c) does, that
\* is when the next character is c; on true index advances by one byte
\* whatever the width of c, on false (another character or the end of the
\* text) index is unchanged; start is never changed
C19_MatchAndTake ==
    /\ (ret.op = "match_and_take" /\ ret.tag # "panic") =>
          /\ ret.tag \in {"true", "false"}
          /\ ret.tag = "true" <=> HasCharAt(source, ret.idx0, ret.arg)
          /\ ret.tag = "true" => index = ret.idx0 + 1
          /\ ret.tag = "false" => index = ret.idx0
          /\ start = ret.start0
    /\ (ret.op = "matches" /\ ret.tag # "panic") =>
          /\ ret.tag = "true" <=> HasCharAt(source, ret.idx0, ret.arg)
          /\ index = ret.idx0
          /\ start = ret.start0

\* a three-byte character accepted: the cursor is one byte further
C19_Witness ==
    /\ ret.op = "match_and_take" /\ ret.tag = "true"
    /\ ret.arg = 8364 /\ len_utf8(ret.arg) = 3
    /\ index = ret.idx0 + 1

\* C20: end_token(kind) returns a token with index = start and
\* len = index - start and changes neither start nor index; in a run that
\* never calls set_index and calls begin_token before scanning each token,
\* each token begins where its begin_token was called, which is at or after
\* the end of the token before it, and exactly at that end when nothing was
\* consumed between that token's end_token and the begin_token
C20_EndToken ==
    ret.op = "end_token" =>
        /\ ret.tag = "token"
        /\ ret.tok.index = ret.start0
        /\ ret.tok.len = ret.idx0 - ret.start0
        /\ index = ret.idx0
        /\ start = ret.start0
        /\ ret.begun0 # NoIndex =>
              /\ ret.tok.index = ret.begun0
              /\ ret.prev_end0 # NoIndex =>
                    /\ ret.tok.index >= ret.prev_end0
                    /\ ret.begun0 = ret.prev_end0 =>
                          ret.tok.index = ret.prev_end0

\* a second token after a gap: the first ended at byte 1, one byte was
\* consumed, and the second token runs from byte 2
C20_Witness ==
    /\ ret.op = "end_token" /\ ret.tag = "token"
    /\ ret.prev_end0 = 1 /\ ret.begun0 = 2
    /\ ret.tok.index = 2 /\ ret.tok.len = 1

====
